---------------------------- MODULE Spec2Model ----------------------------
(***************************************************************************)
(* A model of go_spritesheet (src/spritesheet.go): the gradient builder,   *)
(* the directional growth engine (applyEffect and the standalone           *)
(* ApplyFlameEffect), the glow engine (ApplyGlowEffect), the corrosion     *)
(* automaton (ApplyCorrosion) and the spritesheet indexer.                 *)
(*                                                                         *)
(* A colour is a tuple <<R, G, B, A>> of 8-bit channels (color.RGBA).  An  *)
(* image is a bounds rectangle and a function from the points inside it to *)
(* colours; At outside the rectangle yields the zero colour.  A silhouette *)
(* is read through its alpha channel only, so it is kept as the set of its *)
(* occupied points (alpha # 0).                                            *)
(*                                                                         *)
(* The loops of the engines are modelled one pixel (cell) per step: the    *)
(* engines mutate the overlay in place while they scan, so the state       *)
(* between two pixels is a state of the program.  A call of rand.Float64   *)
(* is a choice among the tenths 0..9 (the thresholds compared with it are  *)
(* 0.1, 0.2 and 0.5), rand.Intn(8) a choice in 0..7 and rand.Perm the      *)
(* choice of the next unvisited index.                                     *)
(***************************************************************************)
EXTENDS Integers, Sequences, FiniteSets, TLC

VARIABLES
    pc,            \* position of the running call
    bounds,        \* layer.Bounds(): [minX, minY, maxX, maxY]
    layer,         \* the occupied points of the silhouette (alpha # 0)
    colorA,        \* first boundary colour (the corrosion colour for ApplyCorrosion)
    colorB,        \* second boundary colour
    numColors,     \* gradient length
    gradient,      \* the gradient built so far (1-based: gradient[i+1] is Go's gradient[i])
    direction,     \* applyEffect's direction
    effectLayer,   \* the overlay: point -> colour
    cur,           \* loop cursor: [x, y, k] (k: the colour index of ApplyGlowEffect)
    corrosion,     \* ApplyCorrosion: [cur, prev, numSeeds, numIterations, visited, i],
                   \* with numSeeds0 (the argument), seeds (the cells seed selection
                   \* marked) and r (the latest rand.Intn(8), -1 if none was drawn)
    sheet,         \* Spritesheet: [tileSize, xCount, yCount, x, y]
    tile           \* TileImage: [index, img] of the latest call and the one before

vars == <<pc, bounds, layer, colorA, colorB, numColors, gradient, direction,
          effectLayer, cur, corrosion, sheet, tile>>

----------------------------------------------------------------------------
(* Bounds of the model *)

\* the directional engine runs on images of 1..EffMaxW by 1..EffMaxH pixels
EffMaxW == 2
EffMaxH == 4
\* applyEffect is given gradient lengths 2..EffMaxColors
EffMaxColors == 3
\* the gradient builder is run for lengths 2..MaxGradLen (and 10 and 15)
MaxGradLen == 5
\* the glow engine runs on images of 1..GlowMaxW by 1..GlowMaxH pixels
GlowMaxW == 3
GlowMaxH == 2
\* the corrosion engine runs on images of 1..CorMaxW by 1..CorMaxH pixels whose
\* min corner has coordinates in 0..CorMaxMin, for 0..CorMaxSeeds seeds and
\* 0..CorMaxIterations iterations
CorMaxW == 2
CorMaxH == 2
CorMaxMin == 1
CorMaxSeeds == 2
CorMaxIterations == 2
\* spritesheets are 1..SheetMax by 1..SheetMax pixels, tiles 1..SheetMax wide
SheetMax == 5

\* program constants
DirectionUp == 1
DirectionDown == -1
minNeighbors == 3
FlameColors == 10
DripColors == 15
GlowColors == 3

----------------------------------------------------------------------------
(* Colours and images *)

Transparent == <<0, 0, 0, 0>>
Black == <<0, 0, 0, 255>>
White == <<255, 255, 255, 255>>

\* color.RGBA.RGBA(): an 8-bit channel c widened to 16 bits, c | c<<8
Chan16(c) == c * 257

\* the alpha returned by c.RGBA()
Alpha(c) == Chan16(c[4])

Min(a, b) == IF a <= b THEN a ELSE b
Max(a, b) == IF a >= b THEN a ELSE b

\* image.Rectangle: Dx, Dy and the points p with p.In(r)
Dx(r) == r.maxX - r.minX
Dy(r) == r.maxY - r.minY
InBounds(r, x, y) == r.minX <= x /\ x < r.maxX /\ r.minY <= y /\ y < r.maxY
Points(r) == {p \in (r.minX .. r.maxX - 1) \X (r.minY .. r.maxY - 1) : TRUE}

\* image.NewRGBA(bounds): every pixel the zero colour
NewRGBA(r) == [p \in Points(r) |-> Transparent]

\* (*image.RGBA).At: the zero colour outside the rectangle
At(img, r, x, y) == IF InBounds(r, x, y) THEN img[<<x, y>>] ELSE Transparent

\* layer.At(x, y).RGBA() alpha of the silhouette: zero outside its bounds
LayerAlpha(x, y) ==
    IF InBounds(bounds, x, y) /\ <<x, y>> \in layer THEN Chan16(255) ELSE 0

\* the rectangles with the given corners and sizes
Rects(mins, maxW, maxH) ==
    {[minX |-> mx, minY |-> my, maxX |-> mx + w, maxY |-> my + h] :
        mx \in mins, my \in mins, w \in 1..maxW, h \in 1..maxH}

----------------------------------------------------------------------------
(* Gradient builder *)

\* One channel of interpolateColor at percentage num/den (0 <= num <= den):
\* uint16(float64(a16) + percentage*(float64(b16) - float64(a16))) >> 8.
\* The float64 sum is within 1e-10 of the exact rational
\* (a16*den + num*(b16 - a16))/den, which is a multiple of 256 only if it is
\* 0 or den is a multiple of 257, so truncating the exact value is what the
\* code yields for every den < 257.
InterpChannel(a, b, num, den) ==
    ((Chan16(a) * den + num * (Chan16(b) - Chan16(a))) \div den) \div 256

interpolateColor(cA, cB, num, den) ==
    [c \in 1..4 |-> InterpChannel(cA[c], cB[c], num, den)]

\* the percentage of entry i of a gradient of n colours, as <<num, den>>
PercentageOffByOne(i, n) == <<i, n>>
Percentage(i, n) == <<i, n - 1>>

\* entry i (0-based) of the gradient loop
GradientEntry(cA, cB, i, n) ==
    interpolateColor(cA, cB, Percentage(i, n)[1], Percentage(i, n)[2])

\* the whole gradient loop: gradient[i] for i in 0..n-1
Gradient(cA, cB, n) == [i \in 1..n |-> GradientEntry(cA, cB, i - 1, n)]


\* the values of the variables a call does not use
Unused == <<>>

\* the colours the gradient builder is run on
GradChannel == {0, 1, 100, 127, 128, 130, 200, 255}
GradColors ==
    {<<v, 255 - v, w, a>> : v \in GradChannel, w \in {0, 255}, a \in {0, 255}}
        \cup {Black, White}
GradLens == (2..MaxGradLen) \cup {FlameColors, DripColors}

InitGradient ==
    /\ pc = "gradient"
    /\ colorA \in GradColors
    /\ colorB \in GradColors
    /\ numColors \in GradLens
    /\ gradient = <<>>
    /\ bounds = Unused /\ layer = Unused /\ direction = Unused
    /\ effectLayer = Unused /\ cur = Unused /\ corrosion = Unused
    /\ sheet = Unused /\ tile = Unused

\* one iteration of the gradient loop: gradient[i] = interpolateColor(...)
GradientLoop ==
    /\ pc = "gradient"
    /\ gradient' = Append(gradient,
                          GradientEntry(colorA, colorB, Len(gradient), numColors))
    /\ pc' = IF Len(gradient) + 1 = numColors THEN "gradientDone" ELSE pc
    /\ UNCHANGED <<bounds, layer, colorA, colorB, numColors, direction,
                   effectLayer, cur, corrosion, sheet, tile>>

NextGradient == GradientLoop

SpecGradient == InitGradient /\ [][NextGradient]_vars

----------------------------------------------------------------------------
(* Directional engine: applyEffect and the standalone ApplyFlameEffect *)

\* rand.Float64() in tenths, and the thresholds it is compared with; a draw is
\* one of [0, 0.1), [0.1, 0.2), [0.2, 0.5) and [0.5, 1), named by its lowest tenth
Tenths == {0, 1, 2, 5}
HalfTenths == 5
ThinEffectTenths == 2
ThinFlameTenths == 1

\* the row of the neighbour the effect grows from
NeighborRowWrongSign(y, dir) == y - dir
NeighborRow(y, dir) == y + dir

\* "If the pixel is set on the original layer, we skip it"
SkipOccupiedNever(x, y) == FALSE
SkipOccupied(x, y) == LayerAlpha(x, y) # 0

\* pixels of the 3x3 neighbourhood of (x, y) inside the bounds
Neighborhood(x, y) ==
    {p \in Points(bounds) : p[1] \in (x - 1)..(x + 1) /\ p[2] \in (y - 1)..(y + 1)}

\* numNeighbors: neighbours set on the silhouette or on the overlay
NumNeighborsEither(img, x, y) ==
    Cardinality({p \in Neighborhood(x, y) :
                    LayerAlpha(p[1], p[2]) # 0 \/ Alpha(img[p]) # 0})

\* the index (0-based) of the first gradient entry equal to colour c, 0 if none
GradientIndex(grad, c) ==
    IF \E i \in 1..Len(grad) : grad[i] = c
    THEN (CHOOSE i \in 1..Len(grad) :
             grad[i] = c /\ \A j \in 1..(i - 1) : grad[j] # c) - 1
    ELSE 0

\* the body of the pixel loop: the overlay after pixel (x, y) is handled, with
\* r1 and r2 the two random draws and thin the thinning threshold
EffectPixel(img, grad, x, y, dir, n, thin, r1, r2) ==
    LET ny == NeighborRow(y, dir)
        aNeighbor == LayerAlpha(x, ny)
        aEffectNeighbor == Alpha(At(img, bounds, x, ny))
        index == GradientIndex(grad, At(img, bounds, x, ny))
    IN  IF SkipOccupied(x, y) THEN img
        ELSE IF aNeighbor # 0 THEN [img EXCEPT ![<<x, y>>] = grad[1]]
        ELSE IF aEffectNeighbor # 0
        THEN IF (NumNeighborsEither(img, x, y) < minNeighbors /\ r1 < HalfTenths)
                  \/ r2 < thin
             THEN img
             ELSE IF index < n - 1
                  THEN [img EXCEPT ![<<x, y>>] = grad[index + 2]]
                  ELSE img
        ELSE img

\* the first row scanned
StartY(dir) == IF dir = -1 THEN bounds.minY ELSE bounds.maxY - 1

\* the cursor after pixel (x, y): the next x, then the next row (y -= dir)
EffectAdvance(x, y, dir) ==
    IF x + 1 < bounds.maxX THEN [x |-> x + 1, y |-> y, k |-> 0]
    ELSE [x |-> bounds.minX, y |-> y - dir, k |-> 0]

\* the boundary colour pairs the engines are run on
EffColorPairs ==
    {<<Black, White>>, <<<<255, 0, 0, 255>>, <<255, 0, 0, 255>>>>,
     <<Transparent, White>>}

InitEffect ==
    /\ bounds \in Rects({0}, EffMaxW, EffMaxH)
    /\ layer \in SUBSET Points(bounds)
    /\ \E cs \in EffColorPairs : colorA = cs[1] /\ colorB = cs[2]
    /\ \/ /\ pc = "applyEffect"
          /\ numColors \in 2..EffMaxColors
          /\ direction \in {DirectionUp, DirectionDown}
       \/ /\ pc = "ApplyFlameEffect"
          /\ numColors = FlameColors
          /\ direction = DirectionUp
    /\ gradient = Gradient(colorA, colorB, numColors)
    /\ effectLayer = NewRGBA(bounds)
    /\ cur = [x |-> bounds.minX, y |-> StartY(direction), k |-> 0]
    /\ corrosion = Unused /\ sheet = Unused /\ tile = Unused

\* applyEffect: one pixel of the scan
applyEffectStep ==
    /\ pc = "applyEffect"
    /\ \E r1 \in Tenths, r2 \in Tenths :
          effectLayer' = EffectPixel(effectLayer, gradient, cur.x, cur.y,
                                     direction, numColors, ThinEffectTenths, r1, r2)
    /\ cur' = EffectAdvance(cur.x, cur.y, direction)
    /\ pc' = IF cur'.y >= bounds.minY /\ cur'.y < bounds.maxY
             THEN pc ELSE "effectDone"
    /\ UNCHANGED <<bounds, layer, colorA, colorB, numColors, gradient,
                   direction, corrosion, sheet, tile>>

\* the standalone ApplyFlameEffect: bottom to top, looking at the pixel below
ApplyFlameEffectStep ==
    /\ pc = "ApplyFlameEffect"
    /\ \E r1 \in Tenths, r2 \in Tenths :
          effectLayer' = EffectPixel(effectLayer, gradient, cur.x, cur.y,
                                     1, FlameColors, ThinFlameTenths, r1, r2)
    /\ cur' = EffectAdvance(cur.x, cur.y, 1)
    /\ pc' = IF cur'.y >= bounds.minY THEN pc ELSE "effectDone"
    /\ UNCHANGED <<bounds, layer, colorA, colorB, numColors, gradient,
                   direction, corrosion, sheet, tile>>

NextEffect == applyEffectStep \/ ApplyFlameEffectStep

SpecEffect == InitEffect /\ [][NextEffect]_vars

----------------------------------------------------------------------------
(* Glow engine: ApplyGlowEffect *)

ThinGlowTenths == 1

\* colorIndex 0: the pixel is a seed source if it is set on the original layer
SeedSourceAlways(x, y) == TRUE
SeedSource(x, y) == LayerAlpha(x, y) # 0

\* colorIndex > 0: only a pixel that is unset on the original layer is looked at
PropagationCandidateAlways(x, y) == TRUE
PropagationCandidate(x, y) == LayerAlpha(x, y) = 0

\* colorIndex > 0: the pixel is skipped unless it is set on the effect layer
\* and is not the current colour c
GlowSource(img, c, x, y) ==
    ~(Alpha(img[<<x, y>>]) = 0 \/ img[<<x, y>>] = c)

\* numNeighbors: neighbours set on the effect layer and not the current colour
NumNeighborsGlow(img, c, x, y) ==
    Cardinality({p \in Neighborhood(x, y) : Alpha(img[p]) # 0 /\ img[p] # c})

\* the neighbours the seed pass sets: unset on the original layer and on the
\* effect layer
SeedTargets(img, x, y) ==
    {p \in Neighborhood(x, y) :
        LayerAlpha(p[1], p[2]) = 0 /\ Alpha(img[p]) = 0}

\* the neighbours a propagation pass sets: unset on the effect layer
GlowTargets(img, x, y) ==
    {p \in Neighborhood(x, y) : Alpha(img[p]) = 0}

\* the body of the pixel loop for colour index k (c = gradient[k]) and draw r
GlowPixel(img, grad, x, y, k, r) ==
    LET c == grad[k + 1]
    IN  IF k = 0
        THEN IF SeedSource(x, y)
             THEN [p \in DOMAIN img |->
                      IF p \in SeedTargets(img, x, y) THEN grad[1] ELSE img[p]]
             ELSE img
        ELSE IF PropagationCandidate(x, y)
        THEN IF ~GlowSource(img, c, x, y) THEN img
             ELSE IF NumNeighborsGlow(img, c, x, y) < minNeighbors
                       \/ r < ThinGlowTenths
                  THEN img
                  ELSE [p \in DOMAIN img |->
                           IF p \in GlowTargets(img, x, y) THEN c ELSE img[p]]
        ELSE img

\* the cursor after pixel (x, y) of pass k: next x, next row, next colour
GlowAdvance(x, y, k) ==
    IF x + 1 < bounds.maxX THEN [x |-> x + 1, y |-> y, k |-> k]
    ELSE IF y + 1 < bounds.maxY THEN [x |-> bounds.minX, y |-> y + 1, k |-> k]
    ELSE [x |-> bounds.minX, y |-> bounds.minY, k |-> k + 1]

InitGlow ==
    /\ pc = "ApplyGlowEffect"
    /\ bounds \in Rects({0}, GlowMaxW, GlowMaxH)
    /\ layer \in SUBSET Points(bounds)
    /\ \E cs \in EffColorPairs : colorA = cs[1] /\ colorB = cs[2]
    /\ numColors = GlowColors
    /\ gradient = Gradient(colorA, colorB, numColors)
    /\ effectLayer = NewRGBA(bounds)
    /\ cur = [x |-> bounds.minX, y |-> bounds.minY, k |-> 0]
    /\ direction = Unused /\ corrosion = Unused /\ sheet = Unused
    /\ tile = Unused

\* ApplyGlowEffect: one pixel of the pass for colour index cur.k
ApplyGlowEffectStep ==
    /\ pc = "ApplyGlowEffect"
    /\ \E r \in Tenths :
          effectLayer' = GlowPixel(effectLayer, gradient, cur.x, cur.y, cur.k, r)
    /\ cur' = GlowAdvance(cur.x, cur.y, cur.k)
    /\ pc' = IF cur'.k < numColors THEN pc ELSE "glowDone"
    /\ UNCHANGED <<bounds, layer, colorA, colorB, numColors, gradient,
                   direction, corrosion, sheet, tile>>

NextGlow == ApplyGlowEffectStep

SpecGlow == InitGlow /\ [][NextGlow]_vars

----------------------------------------------------------------------------
(* Corrosion engine: ApplyCorrosion *)

\* the grids are Go slices of Dx*Dy booleans, indexed from 0; here functions
\* on 0..Dx*Dy-1
GridLen == Dx(bounds) * Dy(bounds)
GridIndexes == 0..(GridLen - 1)
NewGrid == [i \in GridIndexes |-> FALSE]
InRange(i) == 0 <= i /\ i < GridLen

\* index := y*bounds.Dx() + x
CellIndex(x, y) == y * Dx(bounds) + x

\* the sweep skips a cell that is not set in the original layer
CorrosionSkipNever(x, y) == FALSE
CorrosionSkip(x, y) == LayerAlpha(x, y) = 0

\* the grid the output is painted from
PaintSourceCur(c) == c.cur
PaintSource(c) == c.prev

\* seed selection handles cell i of rand.Perm: the grid and the seed budget
\* after it
SeedCell(c, i) ==
    LET x == i % Dx(bounds)
        y == i \div Dx(bounds)
    IN  IF LayerAlpha(x, y) # 0
        THEN [c EXCEPT !.cur[i] = TRUE, !.numSeeds = c.numSeeds - 1,
                       !.visited = c.visited \cup {i},
                       !.seeds = c.seeds \cup {i}]
        ELSE [c EXCEPT !.visited = c.visited \cup {i}]

\* the indexes of corrosionPrev read for the neighbours of (x, y)
NeighborIndexes(x, y) == {CellIndex(p[1], p[2]) : p \in Neighborhood(x, y)}

\* numNeighbors: neighbours set in the previous state
NumNeighborsCur(c, x, y) ==
    Cardinality({p \in Neighborhood(x, y) : c.cur[CellIndex(p[1], p[2])]})
NumNeighborsPrev(c, x, y) ==
    Cardinality({p \in Neighborhood(x, y) : c.prev[CellIndex(p[1], p[2])]})

\* a cell set in the previous state is copied to the current state
CopyPrevForgotten(c, index) == c
CopyPrev(c, index) == [c EXCEPT !.cur[index] = TRUE]

\* rand.Intn(8) < numNeighbors
GrowsOrEqual(r, n) == r <= n
Grows(r, n) == r < n

\* the sweep handles cell (x, y) with r = rand.Intn(8): "ok" and the grids
\* after it, or "panic" when an index is out of the slices' range; the draw
\* is recorded when the cell reaches it
SweepCell(c, x, y, r) ==
    LET index == CellIndex(x, y)
        c0 == [c EXCEPT !.r = -1]
    IN  IF CorrosionSkip(x, y) THEN [st |-> "ok", c |-> c0]
        ELSE IF ~InRange(index) THEN [st |-> "panic", c |-> c]
        ELSE IF c.prev[index]
        THEN [st |-> "ok", c |-> CopyPrev(c0, index)]
        ELSE IF \E n \in NeighborIndexes(x, y) : ~InRange(n)
        THEN [st |-> "panic", c |-> c]
        ELSE IF Grows(r, NumNeighborsPrev(c, x, y))
        THEN [st |-> "ok", c |-> [c EXCEPT !.cur[index] = TRUE, !.r = r]]
        ELSE [st |-> "ok", c |-> [c EXCEPT !.r = r]]

\* the end of one iteration: swap the two grids and count the iteration
SwapGridsForgotten(c) == [c EXCEPT !.i = c.i + 1]
SwapGrids(c) == [c EXCEPT !.cur = c.prev, !.prev = c.cur, !.i = c.i + 1]

\* the position after seed selection, and after each iteration
AfterSeeds(c) ==
    IF c.i < c.numIterations THEN "corrosionSweep" ELSE "corrosionPaint"

\* the corrosion layer: the corrosion colour where the painted grid is set
CorrosionLayer(c, col) ==
    [p \in Points(bounds) |->
        IF PaintSource(c)[CellIndex(p[1], p[2])] THEN col ELSE Transparent]

CorrosionColors == {<<139, 69, 19, 255>>}

InitCorrosion ==
    /\ pc = "corrosionSeed"
    /\ bounds \in Rects(0..CorMaxMin, CorMaxW, CorMaxH)
    /\ layer \in SUBSET Points(bounds)
    /\ colorA \in CorrosionColors
    /\ \E ns \in 0..CorMaxSeeds, ni \in 0..CorMaxIterations :
          corrosion = [cur |-> NewGrid, prev |-> NewGrid, numSeeds |-> ns,
                       numSeeds0 |-> ns, numIterations |-> ni,
                       visited |-> {}, i |-> 0, seeds |-> {}, r |-> -1]
    /\ effectLayer = Unused
    /\ cur = [x |-> bounds.minX, y |-> bounds.minY, k |-> 0]
    /\ colorB = Unused /\ numColors = Unused /\ gradient = Unused
    /\ direction = Unused /\ sheet = Unused /\ tile = Unused

\* seed selection: the next index of rand.Perm(Dx*Dy)
CorrosionSeedStep ==
    /\ pc = "corrosionSeed"
    /\ \E i \in GridIndexes \ corrosion.visited :
          /\ corrosion' = SeedCell(corrosion, i)
          /\ pc' = IF corrosion'.numSeeds = 0 \/ corrosion'.visited = GridIndexes
                   THEN AfterSeeds(corrosion') ELSE pc
    /\ UNCHANGED <<bounds, layer, colorA, colorB, numColors, gradient,
                   direction, effectLayer, cur, sheet, tile>>

\* one cell of one iteration of the automaton, with the swap after the last
CorrosionSweepStep ==
    /\ pc = "corrosionSweep"
    /\ \E r \in 0..7 :
          LET res == SweepCell(corrosion, cur.x, cur.y, r)
              nxt == GlowAdvance(cur.x, cur.y, 0)
          IN  IF res.st = "panic"
              THEN /\ pc' = "panic"
                   /\ UNCHANGED <<corrosion, cur>>
              ELSE IF nxt.k = 0
              THEN /\ corrosion' = res.c
                   /\ cur' = nxt
                   /\ pc' = pc
              ELSE /\ corrosion' = SwapGrids(res.c)
                   /\ cur' = [nxt EXCEPT !.k = 0]
                   /\ pc' = AfterSeeds(corrosion')
    /\ UNCHANGED <<bounds, layer, colorA, colorB, numColors, gradient,
                   direction, effectLayer, sheet, tile>>

\* the output loop: paint the corrosion layer from the previous state
CorrosionPaint ==
    /\ pc = "corrosionPaint"
    /\ IF \E p \in Points(bounds) : ~InRange(CellIndex(p[1], p[2]))
       THEN /\ pc' = "panic"
            /\ UNCHANGED effectLayer
       ELSE /\ pc' = "corrosionDone"
            /\ effectLayer' = CorrosionLayer(corrosion, colorA)
    /\ UNCHANGED <<bounds, layer, colorA, colorB, numColors, gradient,
                   direction, cur, corrosion, sheet, tile>>

NextCorrosion == CorrosionSeedStep \/ CorrosionSweepStep \/ CorrosionPaint

SpecCorrosion == InitCorrosion /\ [][NextCorrosion]_vars

----------------------------------------------------------------------------
(* Spritesheet: New, NumTiles, TileImage *)

\* the decoded image: bounds (0, 0)-(w, h), every pixel a colour of its own
\* (its coordinates, opaque), so that a copied pixel tells where it came from
SheetPixel(x, y) == <<x, y, 0, 255>>
SheetAt(s, x, y) ==
    IF 0 <= x /\ x < s.x /\ 0 <= y /\ y < s.y THEN SheetPixel(x, y)
    ELSE Transparent

\* New: the sheet for an image of w by h pixels and tiles of tileSize
New(w, h, tileSize) ==
    [tileSize |-> tileSize, xCount |-> w \div tileSize,
     yCount |-> h \div tileSize, x |-> w, y |-> h]

NumTiles(s) == s.xCount * s.yCount

\* the position of tile index in the spritesheet
TileXByRows(s, index) == (index % s.yCount) * s.tileSize
TileX(s, index) == (index % s.xCount) * s.tileSize
TileY(s, index) == (index \div s.xCount) * s.tileSize

\* TileImage: a tileSize x tileSize image copied from the sheet
TileImage(s, index) ==
    [p \in (0..(s.tileSize - 1)) \X (0..(s.tileSize - 1)) |->
        SheetAt(s, TileX(s, index) + p[1], TileY(s, index) + p[2])]

NoTile == [index |-> -1, img |-> <<>>]

InitSheet ==
    /\ pc = "sheet"
    /\ \E w \in 1..SheetMax, h \in 1..SheetMax, t \in 1..SheetMax :
          sheet = New(w, h, t)
    /\ tile = <<NoTile, NoTile>>
    /\ bounds = Unused /\ layer = Unused /\ colorA = Unused
    /\ colorB = Unused /\ numColors = Unused /\ gradient = Unused
    /\ direction = Unused /\ effectLayer = Unused /\ cur = Unused
    /\ corrosion = Unused

\* a call of TileImage(index); the model keeps the latest two results.
\* index % xCount panics when xCount = 0; indexes up to NumTiles are tried
TileImageCall ==
    /\ pc = "sheet"
    /\ sheet.xCount # 0
    /\ \E index \in 0..NumTiles(sheet) :
          tile' = <<[index |-> index, img |-> TileImage(sheet, index)], tile[1]>>
    /\ UNCHANGED <<pc, bounds, layer, colorA, colorB, numColors, gradient,
                   direction, effectLayer, cur, corrosion, sheet>>

NextSheet == TileImageCall

SpecSheet == InitSheet /\ [][NextSheet]_vars

----------------------------------------------------------------------------
(* Claims about the gradient builder *)

\* entry e is the truncation to 8 bits of the linear interpolation of the
\* 16-bit channels a*257 and b*257 at fraction i/(n-1)
IsTruncatedInterpolation(e, a, b, i, n) ==
    /\ 256 * (n - 1) * e <= 257 * (a * (n - 1) + i * (b - a))
    /\ 257 * (a * (n - 1) + i * (b - a)) < 256 * (n - 1) * (e + 1)
    /\ Min(a, b) <= e /\ e <= Max(a, b)

\* C5: the gradient of N >= 2 colours from A to B has N entries, starts with A,
\* ends with B, every entry is the truncated per-channel linear interpolation
\* at fraction i/(N-1), and black to white in 3 steps is black, grey 127, white.
C5_GradientBuilder ==
    pc = "gradientDone" =>
        /\ Len(gradient) = numColors
        /\ gradient[1] = colorA
        /\ gradient[numColors] = colorB
        /\ \A i \in 1..numColors : \A c \in 1..4 :
              IsTruncatedInterpolation(gradient[i][c], colorA[c], colorB[c],
                                       i - 1, numColors)
        /\ (colorA = Black /\ colorB = White /\ numColors = 3) =>
              gradient = <<Black, <<127, 127, 127, 255>>, White>>

C5_Witness ==
    /\ pc = "gradientDone"
    /\ colorA = Black /\ colorB = White /\ numColors = 3
    /\ gradient[2] = <<127, 127, 127, 255>>

----------------------------------------------------------------------------
(* Claims about the directional engine *)

EffectRunning == pc \in {"applyEffect", "ApplyFlameEffect", "effectDone"}

\* C1: in every state of the directional engine, and so in the overlay it
\* returns, every pixel occupied on the silhouette is unset on the overlay.
C1_EffectNeverCoversSilhouette ==
    EffectRunning => \A p \in layer : Alpha(effectLayer[p]) = 0

\* the engine has returned an overlay that grew past its seeds beside an
\* occupied pixel
C1_Witness ==
    /\ pc = "effectDone"
    /\ \E p \in layer, q \in Points(bounds) :
          /\ q[1] = p[1]
          /\ Alpha(effectLayer[q]) # 0
          /\ effectLayer[q] = gradient[2] /\ gradient[2] # gradient[1]

\* C6: in the returned overlay every unoccupied pixel whose neighbour at row
\* y+direction is inside the bounds and occupied carries gradient[0], whatever
\* the random draws were.
C6_SeedsNotThinned ==
    pc = "effectDone" =>
        \A p \in Points(bounds) \ layer :
            (InBounds(bounds, p[1], p[2] + direction)
                /\ <<p[1], p[2] + direction>> \in layer)
            => effectLayer[p] = gradient[1]

\* a single-column image holding a vertical line with a free pixel past its
\* end, seeded although every draw of the run could thin
C6_Witness ==
    /\ pc = "effectDone"
    /\ Dx(bounds) = 1
    /\ Cardinality(layer) >= 2
    /\ \E p \in Points(bounds) \ layer :
          /\ <<p[1], p[2] + direction>> \in layer
          /\ effectLayer[p] = gradient[1]
          /\ Alpha(gradient[1]) # 0

----------------------------------------------------------------------------
(* Claims about the glow engine *)

GlowRunning == pc \in {"ApplyGlowEffect", "glowDone"}

\* C2: with boundary colours of non-zero alpha, after the seed pass and after
\* each propagation pass (indeed after every pixel) every pixel occupied on
\* the silhouette is unset on the overlay.
C2_GlowNeverCoversSilhouette ==
    (GlowRunning /\ Alpha(colorA) # 0 /\ Alpha(colorB) # 0)
        => \A p \in layer : Alpha(effectLayer[p]) = 0

\* C7: on a silhouette with no occupied pixel the overlay stays fully
\* transparent through the seed pass and every propagation pass.
C7_GlowEmptySilhouette ==
    (GlowRunning /\ layer = {})
        => \A p \in Points(bounds) : effectLayer[p] = Transparent

\* the glow engine has returned for an empty silhouette of several pixels and
\* boundary colours that would show
C7_Witness ==
    /\ pc = "glowDone"
    /\ layer = {}
    /\ Cardinality(Points(bounds)) >= 4
    /\ Alpha(colorA) # 0 /\ Alpha(colorB) # 0

\* the gradient colours are pairwise distinct
DistinctGradient ==
    \A i, j \in 1..Len(gradient) : i # j => gradient[i] # gradient[j]

\* the step handles a pixel of propagation pass k >= 1 and paints a neighbour
GlowPaints ==
    /\ pc = "ApplyGlowEffect"
    /\ cur.k >= 1
    /\ DistinctGradient
    /\ effectLayer' # effectLayer

\* C10 as stated: a pixel that paints its neighbours in pass k carries the
\* previous pass's colour gradient[k-1] (so a pixel carrying gradient[0] never
\* paints with gradient[2]).
C10_SourceCarriesPreviousColour ==
    [][GlowPaints => effectLayer[<<cur.x, cur.y>>] = gradient[cur.k]]_vars

\* C10 amended: a pixel that paints its neighbours in pass k is unoccupied on
\* the silhouette and carries the colour of an earlier pass, gradient[j] with
\* j < k, and every pixel it changes was unset and becomes gradient[k].
C10_SourceCarriesEarlierColour ==
    [][GlowPaints =>
          /\ <<cur.x, cur.y>> \notin layer
          /\ \E j \in 0..(cur.k - 1) :
                effectLayer[<<cur.x, cur.y>>] = gradient[j + 1]
          /\ \A p \in Points(bounds) :
                effectLayer'[p] # effectLayer[p] =>
                    /\ Alpha(effectLayer[p]) = 0
                    /\ effectLayer'[p] = gradient[cur.k + 1]]_vars

\* pass 2 has painted a neighbour of a pixel that still carries gradient[0]:
\* the pixel at the cursor's predecessor carries gradient[0] and has a
\* neighbour carrying gradient[2]
C10_Witness ==
    /\ GlowRunning
    /\ DistinctGradient
    /\ \E p \in Points(bounds) \ layer :
          /\ effectLayer[p] = gradient[1]
          /\ \E q \in Neighborhood(p[1], p[2]) : effectLayer[q] = gradient[3]
          /\ \A q \in Neighborhood(p[1], p[2]) : effectLayer[q] # gradient[2]

----------------------------------------------------------------------------
(* Claims about the corrosion engine *)

CorrosionRunning ==
    pc \in {"corrosionSeed", "corrosionSweep", "corrosionPaint",
            "corrosionDone", "panic"}

\* the pixel whose grid cell is i is occupied on the silhouette
CellOccupied(i) == \E p \in layer : CellIndex(p[1], p[2]) = i

\* the cells set in a grid
TrueCells(g) == {i \in DOMAIN g : g[i]}

\* C3: after seeding and after every step of the automaton, each cell true in
\* the current or the previous grid is occupied on the silhouette, and every
\* pixel painted in the returned overlay is occupied on the silhouette.
C3_CorrosionWithinSilhouette ==
    CorrosionRunning =>
        /\ \A i \in TrueCells(corrosion.cur) \cup TrueCells(corrosion.prev) :
              CellOccupied(i)
        /\ pc = "corrosionDone" =>
              \A p \in Points(bounds) :
                  Alpha(effectLayer[p]) # 0 => p \in layer

\* an overlay is returned in which corrosion has grown beyond the seeds on a
\* silhouette that also has unoccupied pixels
C3_Witness ==
    /\ pc = "corrosionDone"
    /\ Points(bounds) \ layer # {}
    /\ Cardinality({p \in Points(bounds) : Alpha(effectLayer[p]) # 0})
          > corrosion.numSeeds0
    /\ corrosion.numSeeds0 > 0

\* C4: when seed selection has ended, the number of cells marked true is
\* min(numSeeds, number of occupied cells), for every numSeeds >= 0 (stated
\* for images whose bounds start at (0, 0)).
C4_SeedCount ==
    (pc \in {"corrosionSweep", "corrosionPaint"} /\ corrosion.i = 0
        /\ bounds.minX = 0 /\ bounds.minY = 0)
        => Cardinality(TrueCells(corrosion.cur))
              = Min(corrosion.numSeeds0, Cardinality(layer))

\* C8 as stated: every pixel occupied on the silhouette is unset in the
\* overlay ApplyCorrosion returns.
C8_CorrosionNeverCoversSilhouette ==
    pc = "corrosionDone" => \A p \in layer : Alpha(effectLayer[p]) = 0

\* C8 amended: in the overlay ApplyCorrosion returns every pixel that is not
\* occupied on the silhouette is unset, and a pixel is painted, with the
\* corrosion colour, exactly when its cell is true in the final previous grid.
C8_CorrosionPaintsOnlySilhouette ==
    pc = "corrosionDone" =>
        \A p \in Points(bounds) :
            /\ p \notin layer => effectLayer[p] = Transparent
            /\ effectLayer[p] # Transparent
                  <=> corrosion.prev[CellIndex(p[1], p[2])]
            /\ effectLayer[p] \in {Transparent, colorA}

\* an overlay is returned with an occupied pixel painted, an occupied pixel
\* left unset and an unoccupied pixel
C8_Witness ==
    /\ pc = "corrosionDone"
    /\ \E p \in layer : effectLayer[p] = colorA
    /\ \E p \in layer : effectLayer[p] = Transparent
    /\ Points(bounds) \ layer # {}
    /\ TrueCells(corrosion.cur) # TrueCells(corrosion.prev)

----------------------------------------------------------------------------
(* Claims about the spritesheet *)

\* the source coordinates of the tile at column col and row row
TileRegion(t, col, row) ==
    ((col * t)..(col * t + t - 1)) \X ((row * t)..(row * t + t - 1))

\* the source coordinates a tile image was copied from
SourcesOf(img) == {<<img[p][1], img[p][2]>> : p \in DOMAIN img}

\* tl holds TileImage(index) for a valid index of sheet
ValidTile(tl) == 0 <= tl.index /\ tl.index < NumTiles(sheet)

\* C9: for 1 <= t <= min(W, H), NumTiles is floor(W/t)*floor(H/t); the tile of
\* an index below NumTiles is t x t, its pixel (i, j) is the source pixel
\* ((index mod xCount)*t + i, (index div xCount)*t + j), which lies inside the
\* image, and two distinct indexes read disjoint source regions.
C9_Tiling ==
    (pc = "sheet" /\ sheet.tileSize <= Min(sheet.x, sheet.y)) =>
        LET t == sheet.tileSize
            cols == sheet.x \div t
        IN  /\ NumTiles(sheet) = (sheet.x \div t) * (sheet.y \div t)
            /\ \A n \in 1..2 : ValidTile(tile[n]) =>
                  LET col == tile[n].index % cols
                      row == tile[n].index \div cols
                  IN  /\ DOMAIN tile[n].img = (0..(t - 1)) \X (0..(t - 1))
                      /\ \A p \in DOMAIN tile[n].img :
                            /\ tile[n].img[p]
                                  = SheetPixel(col * t + p[1], row * t + p[2])
                            /\ col * t + p[1] < sheet.x
                            /\ row * t + p[2] < sheet.y
            /\ (ValidTile(tile[1]) /\ ValidTile(tile[2])
                   /\ tile[1].index # tile[2].index)
                  => SourcesOf(tile[1].img) \cap SourcesOf(tile[2].img) = {}

\* two different tiles of a sheet with several rows and columns of tiles of
\* more than one pixel, on an image the tiles do not cover exactly
C9_Witness ==
    /\ pc = "sheet"
    /\ sheet.tileSize >= 2
    /\ sheet.xCount >= 2 /\ sheet.yCount >= 2
    /\ sheet.x % sheet.tileSize # 0
    /\ ValidTile(tile[1]) /\ ValidTile(tile[2])
    /\ tile[1].index = NumTiles(sheet) - 1
    /\ tile[2].index = 1

----------------------------------------------------------------------------
(* Claims about the gradient advance of the directional engine *)

\* the number of overlay pixels between pixel (x, y) and the silhouette pixel
\* its run grows from, following the rows y+direction
RECURSIVE RunPos(_, _)
RunPos(x, y) ==
    IF ~InBounds(bounds, x, y + direction) \/ <<x, y + direction>> \in layer
    THEN 0
    ELSE 1 + RunPos(x, y + direction)

\* C11: in the returned overlay a vertical run of pixels growing from a
\* silhouette edge pixel is at most N pixels long and its i-th pixel carries
\* gradient[i], for every pair of boundary colours, equal ones included.
C11_RunFollowsGradient ==
    pc = "effectDone" =>
        \A p \in Points(bounds) :
            Alpha(effectLayer[p]) # 0 =>
                /\ RunPos(p[1], p[2]) < numColors
                /\ effectLayer[p] = gradient[RunPos(p[1], p[2]) + 1]

\* C11 for gradients whose entries are pairwise distinct
C11_RunFollowsDistinctGradient ==
    (pc = "effectDone" /\ DistinctGradient) =>
        \A p \in Points(bounds) :
            Alpha(effectLayer[p]) # 0 =>
                /\ RunPos(p[1], p[2]) < numColors
                /\ effectLayer[p] = gradient[RunPos(p[1], p[2]) + 1]

----------------------------------------------------------------------------
(* Claims about the steps of the corrosion automaton *)

\* a step of the sweep that does not panic
SweepStepDone == pc = "corrosionSweep" /\ pc' # "panic"

\* the current and the previous grid of the running sweep as record c2 holds
\* them after a step from record c (the step of the last cell swaps them)
CurAfter(c, c2) == IF c2.i # c.i THEN c2.prev ELSE c2.cur
PrevAfter(c, c2) == IF c2.i # c.i THEN c2.cur ELSE c2.prev

\* the in-bounds cells of the 3x3 neighbourhood of (x, y) that are true in g
CountTrueAround(g, x, y) ==
    Cardinality({p \in Points(bounds) :
                    /\ p[1] - x \in {-1, 0, 1}
                    /\ p[2] - y \in {-1, 0, 1}
                    /\ g[p[2] * Dx(bounds) + p[1]]})

\* the cell at the cursor is occupied and false in the previous grid
CursorCellOpen ==
    /\ <<cur.x, cur.y>> \in layer
    /\ ~corrosion.prev[CellIndex(cur.x, cur.y)]

\* C12 as stated: an occupied cell that is false in the previous grid is true
\* in the current grid after its step if and only if the draw r is below the
\* number c of its neighbours true in the previous grid; unoccupied cells are
\* never set.
C12_GrowsIffDrawBelowCount ==
    [][SweepStepDone =>
          /\ CursorCellOpen =>
                (CurAfter(corrosion, corrosion')[CellIndex(cur.x, cur.y)]
                    <=> /\ corrosion'.r >= 0
                        /\ corrosion'.r
                              < CountTrueAround(corrosion.prev, cur.x, cur.y))
          /\ \A i \in GridIndexes :
                CurAfter(corrosion, corrosion')[i] => CellOccupied(i)]_vars

\* C12 amended: such a cell is true in the current grid after its step if and
\* only if it was already true in the current grid (a seed, in the first
\* step) or the draw r is below c; unoccupied cells are never set.
C12_GrowsIffSeedOrDrawBelowCount ==
    [][SweepStepDone =>
          /\ CursorCellOpen =>
                /\ corrosion'.r \in 0..7
                /\ CurAfter(corrosion, corrosion')[CellIndex(cur.x, cur.y)]
                      <=> \/ corrosion.cur[CellIndex(cur.x, cur.y)]
                          \/ corrosion'.r
                                < CountTrueAround(corrosion.prev, cur.x, cur.y)
          /\ \A i \in GridIndexes :
                CurAfter(corrosion, corrosion')[i] => CellOccupied(i)]_vars

\* in the second step a cell that is no seed has just grown on a draw above 0
C12_Witness ==
    /\ pc = "corrosionSweep"
    /\ corrosion.i = 1
    /\ corrosion.r >= 1
    /\ \E i \in GridIndexes :
          corrosion.cur[i] /\ ~corrosion.prev[i] /\ i \notin corrosion.seeds

\* C13: a cell that is true in the previous grid stays true in the previous
\* grid over every step, so the corroded set after k+1 iterations contains
\* the set after k iterations.
C13_CorrosionNeverRecedes ==
    [][\A i \in GridIndexes : corrosion.prev[i] => corrosion'.prev[i]]_vars

\* two iterations are done and the previous grid holds the seeds and more
C13_Witness ==
    /\ corrosion.i >= 2
    /\ corrosion.seeds # {}
    /\ corrosion.seeds \subseteq TrueCells(corrosion.prev)
    /\ TrueCells(corrosion.prev) # corrosion.seeds

\* C14: a step of the sweep leaves the previous grid as it is, writes no cell
\* of the current grid but its own, and the value it writes is decided by the
\* previous grid, the cell's own draw and the cell's own earlier value: no
\* cell set in this sweep is read in this sweep, so the order of the cells
\* does not matter.
C14_DoubleBuffer ==
    [][SweepStepDone =>
          /\ PrevAfter(corrosion, corrosion') = corrosion.prev
          /\ \A j \in GridIndexes :
                (<<cur.x, cur.y>> \notin layer \/ j # CellIndex(cur.x, cur.y))
                    => CurAfter(corrosion, corrosion')[j] = corrosion.cur[j]
          /\ <<cur.x, cur.y>> \in layer =>
                (CurAfter(corrosion, corrosion')[CellIndex(cur.x, cur.y)]
                    <=> \/ corrosion.cur[CellIndex(cur.x, cur.y)]
                        \/ corrosion.prev[CellIndex(cur.x, cur.y)]
                        \/ /\ corrosion'.r >= 0
                           /\ corrosion'.r
                                 < CountTrueAround(corrosion.prev,
                                                   cur.x, cur.y))]_vars

\* in the first step, with seeds in the current grid, a cell beside a seed has
\* made its draw and has not been set
C14_Witness ==
    /\ pc = "corrosionSweep"
    /\ corrosion.i = 0
    /\ corrosion.r = 0
    /\ corrosion.seeds # {}
    /\ TrueCells(corrosion.cur) = corrosion.seeds
    /\ Cardinality(layer) > Cardinality(corrosion.seeds)

\* the grid cells of the pixels painted in the returned overlay
PaintedCells ==
    {CellIndex(p[1], p[2]) : p \in {q \in Points(bounds) :
                                       effectLayer[q] # Transparent}}

\* C15: with numIterations = 0 the returned overlay is fully transparent, with
\* numIterations = 1 the painted cells are exactly the seed cells, and with
\* numIterations >= 1 every seed cell is painted.
C15_SeedsAndIterations ==
    pc = "corrosionDone" =>
        /\ corrosion.numIterations = 0 => PaintedCells = {}
        /\ corrosion.numIterations = 1 => PaintedCells = corrosion.seeds
        /\ corrosion.numIterations >= 1 => corrosion.seeds \subseteq PaintedCells

\* one iteration was run on a silhouette with seeds and other occupied cells
C15_Witness ==
    /\ pc = "corrosionDone"
    /\ corrosion.numIterations = 1
    /\ corrosion.seeds # {}
    /\ Cardinality(layer) > Cardinality(corrosion.seeds)
    /\ PaintedCells # {}

\* C16: for every min corner of the bounds, no index used on the two grids is
\* out of range (the call never panics), and the cell seed selection visits
\* as index i is a pixel inside the bounds.
C16_IndexesInRange ==
    CorrosionRunning =>
        /\ pc # "panic"
        /\ \A i \in corrosion.visited :
              InBounds(bounds, i % Dx(bounds), i \div Dx(bounds))

============================================================================
